---------------------------- MODULE Spec2Model ----------------------------
(***************************************************************************)
(* A model of the derive_where attribute macro (src/src/lib.rs).           *)
(*                                                                         *)
(* The macro is a code generator: the token streams its quote! templates   *)
(* build are modelled as syntax trees (records), one record shape per      *)
(* template.  The second half of the module gives the generated items the  *)
(* meaning rustc gives them: an item is either rejected by the build or    *)
(* accepted, and an accepted method is evaluated on values of the type.    *)
(***************************************************************************)
EXTENDS Integers, Sequences, FiniteSets, TLC

(***************************************************************************)
(* Bounds of the model.                                                    *)
(***************************************************************************)
\* Largest number of fields of an item, over all its variants.
MaxFields == 2
\* Largest number of variants of an enum.
MaxVariants == 2
\* Field values are the integers 0..MaxVal.
MaxVal == 1
\* Largest number of traits in the attribute.
MaxTraits == 2
\* Largest number of generics in the attribute.
MaxGenerics == 2
\* Largest number of predicates in the item's own where clause.
MaxWhere == 1
\* Largest number of tokens in an attribute given to the parser alone.
MaxTokens == 5
\* Largest number of attributes on an enum, of arguments in one of them and
\* of variants of the enum, for Discriminant::parse.
MaxAttrs == 2
MaxList == 2
MaxEnumVariants == 2

(***************************************************************************)
(* Option<T>.                                                              *)
(***************************************************************************)
None == [some |-> FALSE]
Some(v) == [some |-> TRUE, value |-> v]

(***************************************************************************)
(* enum Trait and Trait::path.                                             *)
(***************************************************************************)
Trait ==
    {"Clone", "Copy", "Debug", "Eq", "Hash", "Ord", "PartialEq", "PartialOrd"}

path(self) ==
    CASE self = "Clone"      -> "::core::clone::Clone"
      [] self = "Copy"       -> "::core::copy::Copy"
      [] self = "Debug"      -> "::core::fmt::Debug"
      [] self = "Eq"         -> "::core::cmp::Eq"
      [] self = "Hash"       -> "::core::hash::Hash"
      [] self = "Ord"        -> "::core::cmp::Ord"
      [] self = "PartialEq"  -> "::core::cmp::PartialEq"
      [] self = "PartialOrd" -> "::core::cmp::PartialOrd"

(***************************************************************************)
(* The item the attribute is put on (syn::DeriveInput, as far as the macro *)
(* reads it).  Fields are syn::Fields: Named, Unnamed or Unit.  The idents *)
(* of named fields and of variants are taken from fixed lists, in          *)
(* declaration order.                                                      *)
(***************************************************************************)
FieldIdents == <<"a", "b", "c", "d">>
VariantIdents == <<"A", "B", "C", "D">>
ItemIdent == "Test"

FieldsSet ==
    {[style |-> "Unit", len |-> 0]}
        \cup [style : {"Named", "Unnamed"}, len : 0 .. MaxFields]

\* All sequences over S of length lo..hi.
SeqsOf(S, lo, hi) == UNION {[1 .. n -> S] : n \in lo .. hi}

RECURSIVE TotalLen(_)
TotalLen(variants) ==
    IF variants = <<>> THEN 0 ELSE Head(variants).len + TotalLen(Tail(variants))

DataSet ==
    [kind : {"Struct"}, fields : FieldsSet]
        \cup [kind : {"Enum"},
              variants : {vs \in SeqsOf(FieldsSet, 0, MaxVariants) :
                             TotalLen(vs) <= MaxFields}]
        \cup {[kind |-> "Union"]}

(***************************************************************************)
(* Syntax trees of the generated code.                                     *)
(***************************************************************************)
\* ::core::cmp::Ordering::<o>, inside ::core::option::Option::Some(..) or not.
OrderingTokens(wrapped, o) == [kind |-> "ordering", some |-> wrapped, ordering |-> o]

\* A call `<trait path>::<method>(args)`.
CallTokens(p, method, args) == [kind |-> "call", path |-> p, method |-> method, args |-> args]

\* format_ident!("__{}", field) and format_ident!("__other_{}", field).
FormatIdent(prefix, field) == prefix \o field

(***************************************************************************)
(* Trait::prepare_ord.  variants is Option<(usize, &[&Ident])>; skip is    *)
(* "brace" for `{ .. }`, "paren" for `(..)` and "none" for the empty       *)
(* stream.  Returns (body, other).                                         *)
(***************************************************************************)
Min(a, b) == IF a <= b THEN a ELSE b

\* The for loop over fields_temp.iter().zip(fields_other).rev(): field k is
\* wrapped around the arm built from the fields after it.
RECURSIVE OrdChain(_, _, _, _, _, _)
OrdChain(p, equal, fields_temp, fields_other, k, body) ==
    IF k = 0
    THEN body
    ELSE OrdChain(p, equal, fields_temp, fields_other, k - 1,
                  [kind |-> "match_cmp",
                   scrutinee |-> CallTokens(p, "partial_cmp",
                                            <<fields_temp[k], fields_other[k]>>),
                   equal |-> equal,
                   body |-> body])

\* variant.cmp(&index)
UsizeCmp(a, b) == IF a < b THEN "Less" ELSE IF a = b THEN "Equal" ELSE "Greater"

\* The arms `#item_ident::#variants #skip => #ordering,` for index = k-1 ...
RECURSIVE OtherArms(_, _, _, _, _, _)
OtherArms(wrapped, item_ident, variant, variants, skip, k) ==
    IF k > Len(variants)
    THEN <<>>
    ELSE LET index == k - 1
             rest == OtherArms(wrapped, item_ident, variant, variants, skip, k + 1)
         IN  IF variant # index
             THEN <<[pat |-> [kind |-> "variant",
                              ctor |-> <<item_ident, variants[k]>>,
                              delim |-> skip,
                              fields |-> <<>>,
                              rest |-> skip # "none"],
                     value |-> OrderingTokens(wrapped, UsizeCmp(variant, index))]>>
                  \o rest
             ELSE rest

prepare_ord(self, item_ident, fields_temp, fields_other, variants, skip) ==
    LET wrapped == (self = "PartialOrd")
        equal == OrderingTokens(wrapped, "Equal")
        n == Min(Len(fields_temp), Len(fields_other))
    IN  [body |-> OrdChain(path(self), equal, fields_temp, fields_other, n, equal),
         other |-> IF variants.some
                   THEN OtherArms(wrapped, item_ident, variants.value.variant,
                                  variants.value.variants, skip, 1)
                   ELSE <<>>]

(***************************************************************************)
(* Patterns and arms shared by build_for_struct, build_for_tuple and       *)
(* build_for_unit.  `pattern` is the token stream #name or                 *)
(* #name::#variant, a sequence of idents.                                  *)
(***************************************************************************)
\* `#pattern { #(#fields: ref #binds),* }`
StructPattern(pattern, fields, binds) ==
    [kind |-> "variant", ctor |-> pattern, delim |-> "brace",
     fields |-> [i \in 1 .. Len(fields) |-> [member |-> fields[i], bind |-> binds[i]]],
     rest |-> FALSE]

\* `#pattern (#(ref #binds),*)`
TuplePattern(pattern, binds) ==
    [kind |-> "variant", ctor |-> pattern, delim |-> "paren",
     fields |-> [i \in 1 .. Len(binds) |-> [member |-> ToString(i - 1), bind |-> binds[i]]],
     rest |-> FALSE]

\* `#pattern`
UnitPattern(pattern) ==
    [kind |-> "variant", ctor |-> pattern, delim |-> "none", fields |-> <<>>, rest |-> FALSE]

\* `(#left, #right)`
PairPattern(left, right) == [kind |-> "pair", left |-> left, right |-> right]

\* `#own => { match __other { #own_other => #body, #other } }`
OrdArm(own, own_other, ord) ==
    [pat |-> own,
     value |-> [kind |-> "match", scrutinee |-> "__other",
                arms |-> <<[pat |-> own_other, value |-> ord.body]>> \o ord.other]]

(***************************************************************************)
(* Trait::build_for_struct: the arm of a struct or of a struct variant.    *)
(* fields are the idents of the named fields.  The result is a sequence of *)
(* arms: empty for the empty token stream.                                 *)
(***************************************************************************)
build_for_struct(self, debug_name, item_ident, pattern, variants, fields) ==
    LET fields_temp == [i \in 1 .. Len(fields) |-> FormatIdent("__", fields[i])]
        fields_other == [i \in 1 .. Len(fields) |-> FormatIdent("__other_", fields[i])]
        own == StructPattern(pattern, fields, fields_temp)
        own_other == StructPattern(pattern, fields, fields_other)
    IN  CASE self = "Clone" ->
               <<[pat |-> own,
                  value |-> [kind |-> "construct", ctor |-> pattern, delim |-> "brace",
                             fields |-> [i \in 1 .. Len(fields) |->
                                 [member |-> fields[i],
                                  value |-> CallTokens(path(self), "clone",
                                                       <<fields_temp[i]>>)]]]]>>
          [] self = "Copy" -> <<>>
          [] self = "Debug" ->
               <<[pat |-> own,
                  value |-> [kind |-> "debug_struct", name |-> debug_name,
                             fields |-> [i \in 1 .. Len(fields) |->
                                 [name |-> [kind |-> "ident", ident |-> fields[i]],
                                  value |-> fields_temp[i]]]]]>>
          [] self = "Eq" -> <<>>
          [] self = "Hash" ->
               <<[pat |-> own,
                  value |-> [kind |-> "block",
                             stmts |-> [i \in 1 .. Len(fields) |->
                                 CallTokens(path(self), "hash",
                                            <<fields_temp[i], "__state">>)]]]>>
          [] self = "Ord" ->
               <<OrdArm(own, own_other,
                        prepare_ord(self, item_ident, fields_temp, fields_other,
                                    variants, "brace"))>>
          [] self = "PartialEq" ->
               <<[pat |-> PairPattern(own, own_other),
                  value |-> [kind |-> "block",
                             stmts |-> [i \in 1 .. Len(fields) |->
                                 [kind |-> "and_assign", target |-> "__cmp",
                                  value |-> CallTokens(path(self), "eq",
                                               <<fields_temp[i], fields_other[i]>>)]]]]>>
          [] self = "PartialOrd" ->
               <<OrdArm(own, own_other,
                        prepare_ord(self, item_ident, fields_temp, fields_other,
                                    variants, "brace"))>>

(***************************************************************************)
(* Trait::build_for_tuple: the arm of a tuple struct or a tuple variant.   *)
(* len is fields.unnamed.len().                                            *)
(***************************************************************************)
build_for_tuple(self, debug_name, item_ident, pattern, variants, len) ==
    LET fields_temp == [i \in 1 .. len |-> FormatIdent("__", ToString(i - 1))]
        fields_other == [i \in 1 .. len |-> FormatIdent("__other_", ToString(i - 1))]
        own == TuplePattern(pattern, fields_temp)
        own_other == TuplePattern(pattern, fields_other)
    IN  CASE self = "Clone" ->
               <<[pat |-> own,
                  value |-> [kind |-> "construct", ctor |-> pattern, delim |-> "paren",
                             fields |-> [i \in 1 .. len |->
                                 [member |-> ToString(i - 1),
                                  value |-> CallTokens(path(self), "clone",
                                                       <<fields_temp[i]>>)]]]]>>
          [] self = "Copy" -> <<>>
          [] self = "Debug" ->
               <<[pat |-> own,
                  value |-> [kind |-> "debug_tuple", name |-> debug_name,
                             fields |-> [i \in 1 .. len |-> [value |-> fields_temp[i]]]]]>>
          [] self = "Eq" -> <<>>
          [] self = "Hash" ->
               <<[pat |-> own,
                  value |-> [kind |-> "block",
                             stmts |-> [i \in 1 .. len |->
                                 CallTokens(path(self), "hash",
                                            <<fields_temp[i], "__state">>)]]]>>
          [] self = "Ord" ->
               <<OrdArm(own, own_other,
                        prepare_ord(self, item_ident, fields_temp, fields_other,
                                    variants, "paren"))>>
          [] self = "PartialEq" ->
               <<[pat |-> PairPattern(own, own_other),
                  value |-> [kind |-> "block",
                             stmts |-> [i \in 1 .. len |->
                                 [kind |-> "and_assign", target |-> "__cmp",
                                  value |-> CallTokens(path(self), "eq",
                                               <<fields_temp[i], fields_other[i]>>)]]]]>>
          [] self = "PartialOrd" ->
               <<OrdArm(own, own_other,
                        prepare_ord(self, item_ident, fields_temp, fields_other,
                                    variants, "paren"))>>

(***************************************************************************)
(* Trait::build_for_unit: the arm of a unit variant.                       *)
(***************************************************************************)
build_for_unit(self, debug_name, item_ident, pattern, variants) ==
    LET own == UnitPattern(pattern)
    IN  CASE self = "Clone" ->
               <<[pat |-> own,
                  value |-> [kind |-> "construct", ctor |-> pattern, delim |-> "none",
                             fields |-> <<>>]]>>
          [] self = "Copy" -> <<>>
          [] self = "Debug" ->
               <<[pat |-> own, value |-> [kind |-> "write_str", name |-> debug_name]]>>
          [] self = "Eq" -> <<>>
          [] self = "Hash" -> <<[pat |-> own, value |-> [kind |-> "unit"]]>>
          [] self = "Ord" ->
               <<OrdArm(own, own,
                        prepare_ord(self, item_ident, <<>>, <<>>, variants, "none"))>>
          [] self = "PartialEq" ->
               <<[pat |-> PairPattern(own, own), value |-> [kind |-> "bool", value |-> TRUE]]>>
          [] self = "PartialOrd" ->
               <<OrdArm(own, own,
                        prepare_ord(self, item_ident, <<>>, <<>>, variants, "none"))>>

(***************************************************************************)
(* Trait::build_signature: the method wrapped around the arms.  A method   *)
(* is: the statements before the match (prelude), whether the match sits   *)
(* in `if discriminant(self) == discriminant(__other) { .. } else { false  *)
(* }` (guard), what the match dispatches on (scrutinee) and its arms.      *)
(* Copy and Eq give the empty token stream.                                *)
(***************************************************************************)
EmptyTokens == [empty |-> TRUE]

Method(name, ret, guard, prelude, scrutinee, arms) ==
    [empty |-> FALSE, method |-> name, ret |-> ret, guard |-> guard,
     prelude |-> prelude, scrutinee |-> scrutinee, arms |-> arms]

\* A plausible slip: hash without the discriminant.
build_signature_fields_only(self, body) ==
    CASE self = "Clone" -> Method("clone", "Self", FALSE, <<>>, <<"self">>, body)
      [] self = "Hash" -> Method("hash", "()", FALSE, <<>>, <<"self">>, body)
      [] OTHER -> EmptyTokens

build_signature(self, body) ==
    CASE self = "Clone" -> Method("clone", "Self", FALSE, <<>>, <<"self">>, body)
      [] self = "Copy" -> EmptyTokens
      [] self = "Debug" ->
           Method("fmt", "::core::fmt::Result", FALSE, <<>>, <<"self">>, body)
      [] self = "Eq" -> EmptyTokens
      [] self = "Hash" ->
           Method("hash", "()", FALSE,
                  <<CallTokens(path(self), "hash",
                               <<"&::core::mem::discriminant(self)", "__state">>)>>,
                  <<"self">>, body)
      [] self = "Ord" ->
           Method("cmp", "::core::cmp::Ordering", FALSE, <<>>, <<"self", "__other">>, body)
      [] self = "PartialEq" ->
           Method("eq", "bool", TRUE,
                  <<[kind |-> "let_mut", name |-> "__cmp", value |-> TRUE]>>,
                  <<"self", "__other">>,
                  body \o <<[pat |-> [kind |-> "wild"],
                             value |-> CallTokens("::core", "unreachable",
                                                  <<"Comparing discriminants failed">>)]>>)
      [] self = "PartialOrd" ->
           Method("partial_cmp", "::core::option::Option<::core::cmp::Ordering>", FALSE,
                  <<>>, <<"self">>, body)

(***************************************************************************)
(* Result<T>.                                                              *)
(***************************************************************************)
Ok(v) == [ok |-> TRUE, value |-> v]
Err(e) == [ok |-> FALSE, error |-> e]

(***************************************************************************)
(* Trait::generate_body.                                                   *)
(***************************************************************************)
\* The idents a FieldsNamed of `len` fields declares.
NamedIdents(len) == SubSeq(FieldIdents, 1, len)

\* data.variants.iter().map(|variant| &variant.ident).collect()
VariantsOf(data) == SubSeq(VariantIdents, 1, Len(data.variants))

\* The closure of the map over data.variants.iter().enumerate().
VariantArms(self, name, data, index) ==
    LET variant == data.variants[index + 1]
        debug_name == VariantIdents[index + 1]
        pattern == <<name, debug_name>>
        variants == Some([variant |-> index, variants |-> VariantsOf(data)])
    IN  CASE variant.style = "Named" ->
               build_for_struct(self, debug_name, name, pattern, variants,
                                NamedIdents(variant.len))
          [] variant.style = "Unnamed" ->
               build_for_tuple(self, debug_name, name, pattern, variants, variant.len)
          [] variant.style = "Unit" ->
               build_for_unit(self, debug_name, name, pattern, variants)

\* .collect() of the arms of the variants from index on.
RECURSIVE CollectArms(_, _, _, _)
CollectArms(self, name, data, index) ==
    IF index >= Len(data.variants)
    THEN <<>>
    ELSE VariantArms(self, name, data, index) \o CollectArms(self, name, data, index + 1)

generate_body(self, name, data) ==
    CASE data.kind = "Struct" ->
           (CASE data.fields.style = "Named" ->
                   Ok(build_signature(self,
                        build_for_struct(self, name, name, <<name>>, None,
                                         NamedIdents(data.fields.len))))
              [] data.fields.style = "Unnamed" ->
                   Ok(build_signature(self,
                        build_for_tuple(self, name, name, <<name>>, None,
                                        data.fields.len)))
              [] data.fields.style = "Unit" ->
                   Err("Using `derive_where` on unit struct is not supported as unit structs don't support generics."))
      [] data.kind = "Enum" ->
           Ok(build_signature(self, CollectArms(self, name, data, 0)))
      [] data.kind = "Union" -> Err("Unions aren't supported.")

(***************************************************************************)
(* The meaning of a generated method.                                      *)
(*                                                                         *)
(* A value of the item is its variant (the declaration index; 0 for a      *)
(* struct) and its field values in declaration order.  Field types are     *)
(* integers, whose Clone, Hash, PartialEq, PartialOrd and Ord are the      *)
(* usual ones.                                                             *)
(***************************************************************************)
FieldValues == 0 .. MaxVal

\* The Fields of the struct, or of the variant at `index` of the enum.
FieldsOf(data, index) ==
    IF data.kind = "Struct" THEN data.fields ELSE data.variants[index + 1]

VariantCount(data) ==
    CASE data.kind = "Struct" -> 1
      [] data.kind = "Enum" -> Len(data.variants)
      [] data.kind = "Union" -> 0

ValuesOf(data) ==
    UNION {{[variant |-> index, fields |-> f] :
                f \in [1 .. FieldsOf(data, index).len -> FieldValues]} :
           index \in 0 .. VariantCount(data) - 1}

\* The variant a path `#name` or `#name::#variant` names.
CtorIndex(ctor, data) ==
    IF Len(ctor) = 1
    THEN 0
    ELSE (CHOOSE k \in 1 .. Len(VariantIdents) : VariantIdents[k] = ctor[2]) - 1

\* The position of a member (a field ident, or a tuple index) in its variant.
MemberPos(member) ==
    IF \E k \in 1 .. Len(FieldIdents) : FieldIdents[k] = member
    THEN CHOOSE k \in 1 .. Len(FieldIdents) : FieldIdents[k] = member
    ELSE CHOOSE k \in 1 .. Len(FieldIdents) : ToString(k - 1) = member

Members(fields) ==
    IF fields.style = "Named"
    THEN NamedIdents(fields.len)
    ELSE [i \in 1 .. fields.len |-> ToString(i - 1)]

\* Whether rustc accepts a pattern (or a constructor expression) with this
\* delimiter and these members for a variant with these Fields: braces with
\* `..` fit every variant, parentheses only a tuple variant, a bare path
\* only a unit variant; without `..` every field is named exactly once.
DelimFits(delim, rest, members, fields) ==
    CASE delim = "brace" ->
           \/ rest /\ members = <<>>
           \/ /\ ~rest
              /\ fields.style = "Named" \/ fields.len = 0
              /\ Len(members) = fields.len
              /\ members = Members(fields)
      [] delim = "paren" ->
           /\ fields.style = "Unnamed"
           /\ rest \/ Len(members) = fields.len
      [] delim = "none" -> fields.style = "Unit"

MemberSeq(fs) == [i \in 1 .. Len(fs) |-> fs[i].member]

\* A pattern against what the match dispatches on: `arity` operands.
PatternFits(pat, arity, data) ==
    CASE pat.kind = "wild" -> TRUE
      [] pat.kind = "variant" ->
           /\ arity = 1
           /\ DelimFits(pat.delim, pat.rest, MemberSeq(pat.fields),
                        FieldsOf(data, CtorIndex(pat.ctor, data)))
      [] pat.kind = "pair" ->
           /\ arity = 2
           /\ \A q \in {pat.left, pat.right} :
                  /\ q.kind = "variant"
                  /\ DelimFits(q.delim, q.rest, MemberSeq(q.fields),
                               FieldsOf(data, CtorIndex(q.ctor, data)))

\* The result type of the call `<p>::<method>(..)`: the methods the traits
\* of core declare under these paths.  A path that names no function (a
\* method of a supertrait, a macro without its `!`) does not resolve.
CallType(p, method) ==
    CASE p = "::core::clone::Clone" /\ method = "clone" -> "T"
      [] p = "::core::hash::Hash" /\ method = "hash" -> "()"
      [] p = "::core::cmp::PartialEq" /\ method = "eq" -> "bool"
      [] p = "::core::cmp::PartialOrd" /\ method = "partial_cmp" ->
           "::core::option::Option<::core::cmp::Ordering>"
      [] p = "::core::cmp::Ord" /\ method = "cmp" -> "::core::cmp::Ordering"
      [] OTHER -> "unresolved"

\* The type of an expression of a generated arm, "error" when rustc
\* rejects it.
RECURSIVE TypeOf(_, _)
TypeOf(e, data) ==
    CASE e.kind = "ordering" ->
           IF e.some
           THEN "::core::option::Option<::core::cmp::Ordering>"
           ELSE "::core::cmp::Ordering"
      [] e.kind = "bool" -> "bool"
      [] e.kind = "unit" -> "()"
      [] e.kind = "call" ->
           IF CallType(e.path, e.method) = "unresolved"
           THEN "error"
           ELSE CallType(e.path, e.method)
      [] e.kind = "match_cmp" ->
           \* match <call> { #equal => #body, __cmp => __cmp }
           LET t == TypeOf(e.scrutinee, data)
           IN  IF t # "error" /\ TypeOf(e.equal, data) = t /\ TypeOf(e.body, data) = t
               THEN t
               ELSE "error"
      [] e.kind = "match" ->
           \* match __other { .. }
           LET ts == {TypeOf(e.arms[i].value, data) : i \in DOMAIN e.arms}
           IN  IF /\ \A i \in DOMAIN e.arms : PatternFits(e.arms[i].pat, 1, data)
                  /\ Cardinality(ts) = 1
               THEN CHOOSE t \in ts : TRUE
               ELSE "error"
      [] e.kind = "construct" ->
           IF /\ DelimFits(e.delim, FALSE, MemberSeq(e.fields),
                           FieldsOf(data, CtorIndex(e.ctor, data)))
              /\ \A i \in DOMAIN e.fields : TypeOf(e.fields[i].value, data) = "T"
           THEN "Self"
           ELSE "error"
      [] e.kind = "block" ->
           \* { stmt; stmt; } has no tail expression
           IF \A i \in DOMAIN e.stmts :
                  IF e.stmts[i].kind = "and_assign"
                  THEN TypeOf(e.stmts[i].value, data) = "bool"
                  ELSE TypeOf(e.stmts[i], data) # "error"
           THEN "()"
           ELSE "error"
      [] e.kind = "debug_struct" ->
           \* DebugStruct::field(&mut __builder, <name>, <value>) takes a &str
           IF \A i \in DOMAIN e.fields : e.fields[i].name.kind = "str"
           THEN "::core::fmt::Result"
           ELSE "error"
      [] e.kind = "debug_tuple" -> "::core::fmt::Result"
      [] e.kind = "write_str" -> "::core::fmt::Result"

\* Whether rustc accepts the generated method for this item: every arm's
\* pattern fits what the match dispatches on, and every arm has the
\* method's return type.
Accepted(sig, data) ==
    \/ sig.empty
    \/ /\ \A i \in DOMAIN sig.prelude :
              sig.prelude[i].kind = "call" => TypeOf(sig.prelude[i], data) # "error"
       /\ \A i \in DOMAIN sig.arms :
              /\ PatternFits(sig.arms[i].pat, Len(sig.scrutinee), data)
              /\ TypeOf(sig.arms[i].value, data) = sig.ret

(***************************************************************************)
(* Evaluation of an accepted method on values.  An environment maps the    *)
(* idents a pattern binds to field values.  Every call of a trait method   *)
(* on fields is recorded, in evaluation order, in `evals`.                 *)
(***************************************************************************)
\* Ord::cmp of two field values.
FieldCmp(a, b) == IF a < b THEN "Less" ELSE IF a = b THEN "Equal" ELSE "Greater"

MatchesValue(pat, v, data) ==
    pat.kind = "variant" /\ CtorIndex(pat.ctor, data) = v.variant

\* The bindings `ref <bind>` of a pattern matched against v.
Env(pat, v) ==
    [n \in {pat.fields[i].bind : i \in DOMAIN pat.fields} |->
        LET i == CHOOSE i \in DOMAIN pat.fields : pat.fields[i].bind = n
        IN  v.fields[MemberPos(pat.fields[i].member)]]

\* A call of a trait method on bound fields: its value and its record.
EvalCall(c, env) ==
    LET vals == [i \in DOMAIN c.args |->
                    IF c.args[i] \in DOMAIN env THEN env[c.args[i]] ELSE -1]
        value ==
            CASE c.method = "clone" -> [kind |-> "field", value |-> vals[1]]
              [] c.method = "hash" -> [kind |-> "unit"]
              [] c.method = "eq" -> [kind |-> "bool", value |-> vals[1] = vals[2]]
              [] c.method = "partial_cmp" ->
                   OrderingTokens(TRUE, FieldCmp(vals[1], vals[2]))
              [] c.method = "cmp" -> OrderingTokens(FALSE, FieldCmp(vals[1], vals[2]))
              [] OTHER -> [kind |-> "panic"]
    IN  [value |-> value,
         evals |-> <<[method |-> c.method, args |-> c.args, values |-> vals]>>]

\* The evals of a sequence of statements, in order.
RECURSIVE EvalStmts(_, _, _)
EvalStmts(stmts, env, k) ==
    IF k > Len(stmts)
    THEN <<>>
    ELSE (IF stmts[k].kind = "and_assign"
          THEN EvalCall(stmts[k].value, env).evals
          ELSE IF stmts[k].kind = "call"
               THEN EvalCall(stmts[k], env).evals
               ELSE <<>>)
         \o EvalStmts(stmts, env, k + 1)

RECURSIVE Eval(_, _, _, _)
Eval(e, env, other, data) ==
    CASE e.kind \in {"ordering", "bool", "unit"} -> [value |-> e, evals |-> <<>>]
      [] e.kind = "call" -> EvalCall(e, env)
      [] e.kind = "match_cmp" ->
           LET c == EvalCall(e.scrutinee, env)
           IN  IF c.value = e.equal
               THEN LET r == Eval(e.body, env, other, data)
                    IN  [value |-> r.value, evals |-> c.evals \o r.evals]
               ELSE c
      [] e.kind = "match" ->
           LET i == CHOOSE i \in DOMAIN e.arms :
                        /\ MatchesValue(e.arms[i].pat, other, data)
                        /\ \A j \in 1 .. i - 1 : ~MatchesValue(e.arms[j].pat, other, data)
           IN  Eval(e.arms[i].value, env @@ Env(e.arms[i].pat, other), other, data)
      [] e.kind = "construct" ->
           LET cs == [i \in DOMAIN e.fields |-> EvalCall(e.fields[i].value, env)]
               at(pos) == CHOOSE i \in DOMAIN e.fields : MemberPos(e.fields[i].member) = pos
               RECURSIVE all(_)
               all(k) == IF k > Len(cs) THEN <<>> ELSE cs[k].evals \o all(k + 1)
           IN  [value |-> [kind |-> "value",
                           variant |-> CtorIndex(e.ctor, data),
                           fields |-> [pos \in DOMAIN e.fields |-> cs[at(pos)].value.value]],
                evals |-> all(1)]
      [] e.kind = "block" ->
           [value |-> [kind |-> "unit"], evals |-> EvalStmts(e.stmts, env, 1)]

\* Whether arm i of the method's match is the one taken for (self, other).
ArmMatches(sig, i, self, other, data) ==
    LET pat == sig.arms[i].pat
    IN  CASE pat.kind = "wild" -> TRUE
          [] pat.kind = "variant" -> MatchesValue(pat, self, data)
          [] pat.kind = "pair" ->
               MatchesValue(pat.left, self, data) /\ MatchesValue(pat.right, other, data)

ArmEnv(pat, self, other) ==
    CASE pat.kind = "wild" -> <<>>
      [] pat.kind = "variant" -> Env(pat, self)
      [] pat.kind = "pair" -> Env(pat.left, self) @@ Env(pat.right, other)

\* A call `self.<method>(other)` of the generated method; other is ignored
\* by the methods that take no second operand.
Run(sig, data, self, other) ==
    LET pre == EvalStmts(sig.prelude,
                         [n \in {"&::core::mem::discriminant(self)"} |-> self.variant], 1)
    IN  IF sig.guard /\ self.variant # other.variant
        THEN [value |-> [kind |-> "bool", value |-> FALSE], evals |-> <<>>]
        ELSE LET i == CHOOSE i \in DOMAIN sig.arms :
                          /\ ArmMatches(sig, i, self, other, data)
                          /\ \A j \in 1 .. i - 1 : ~ArmMatches(sig, j, self, other, data)
                 r == Eval(sig.arms[i].value, ArmEnv(sig.arms[i].pat, self, other),
                           other, data)
             IN  [value |-> r.value, evals |-> pre \o r.evals]

\* What the build and the call give: the item is rejected, or the method
\* returns.
Invoke(sig, data, self, other) ==
    IF Accepted(sig, data)
    THEN [outcome |-> "returned"] @@ Run(sig, data, self, other)
    ELSE [outcome |-> "rejected"]

(***************************************************************************)
(* The attribute: a sequence of tokens.  A token is an ident or one of the *)
(* punctuation tokens below; a type and a bound are each a single ident.   *)
(***************************************************************************)
Punct == {",", ";", ":", "+"}
IsIdent(tok) == tok \notin Punct

\* impl Parse for Trait, on the token at pos.
TraitParse(toks, pos) ==
    IF pos > Len(toks) \/ ~IsIdent(toks[pos])
    THEN Err("expected identifier")
    ELSE IF toks[pos] \in Trait
         THEN Ok(toks[pos])
         ELSE Err(toks[pos] \o " isn't supported")

\* Punctuated::<Trait, Token![,]>::parse_terminated from pos to the end of
\* the input.
RECURSIVE ParseTraits(_, _, _)
ParseTraits(toks, pos, acc) ==
    IF pos > Len(toks)
    THEN Ok(acc)
    ELSE LET t == TraitParse(toks, pos)
         IN  IF ~t.ok
             THEN t
             ELSE IF pos + 1 > Len(toks)
                  THEN Ok(Append(acc, t.value))
                  ELSE IF toks[pos + 1] = ","
                       THEN ParseTraits(toks, pos + 2, Append(acc, t.value))
                       ELSE Err("expected comma")

\* The bounds of a WherePredicate from pos on: idents separated by `+`, up
\* to the end of the input or a `,`, `;` or `:`.  Gives the bounds and the
\* position after them.
RECURSIVE ParseBounds(_, _, _)
ParseBounds(toks, pos, acc) ==
    IF pos > Len(toks) \/ toks[pos] \in {",", ";", ":"}
    THEN Ok([bounds |-> acc, pos |-> pos])
    ELSE IF ~IsIdent(toks[pos])
         THEN Err("expected bound")
         ELSE IF pos + 1 <= Len(toks) /\ toks[pos + 1] = "+"
              THEN ParseBounds(toks, pos + 2, Append(acc, toks[pos]))
              ELSE Ok([bounds |-> Append(acc, toks[pos]), pos |-> pos + 1])

\* impl Parse for Generic at pos: a WherePredicate if one parses there, a
\* Type otherwise.  Gives the Generic and the position after it.
GenericParse(toks, pos) ==
    LET where_predicate ==
            IF pos + 1 <= Len(toks) /\ IsIdent(toks[pos]) /\ toks[pos + 1] = ":"
            THEN ParseBounds(toks, pos + 2, <<>>)
            ELSE Err("expected colon")
    IN  IF where_predicate.ok
        THEN Ok([generic |-> [kind |-> "CoustomBound",
                              bounded_ty |-> toks[pos],
                              bounds |-> where_predicate.value.bounds],
                 pos |-> where_predicate.value.pos])
        ELSE IF pos <= Len(toks) /\ IsIdent(toks[pos])
             THEN Ok([generic |-> [kind |-> "NoBound", ty |-> toks[pos]], pos |-> pos + 1])
             ELSE Err("expected type")

\* Punctuated::<Generic, Token![,]>::parse_separated_nonempty at pos.
RECURSIVE ParseGenerics(_, _, _)
ParseGenerics(toks, pos, acc) ==
    LET g == GenericParse(toks, pos)
    IN  IF ~g.ok
        THEN g
        ELSE IF g.value.pos <= Len(toks) /\ toks[g.value.pos] = ","
             THEN ParseGenerics(toks, g.value.pos + 1, Append(acc, g.value.generic))
             ELSE Ok([generics |-> Append(acc, g.value.generic), pos |-> g.value.pos])

\* A variant of DeriveWhere::parse whose first attempt reads the trait list
\* up to a `;` instead of up to the end of the input.
DeriveWhereParse_prefix(toks) ==
    LET stop == IF \E k \in DOMAIN toks : toks[k] = ";"
                THEN (CHOOSE k \in DOMAIN toks :
                         toks[k] = ";" /\ \A j \in 1 .. k - 1 : toks[j] # ";") - 1
                ELSE Len(toks)
        only_traits == ParseTraits(SubSeq(toks, 1, stop), 1, <<>>)
    IN  IF only_traits.ok
        THEN Ok([generics |-> None, traits |-> only_traits.value])
        ELSE LET generics == ParseGenerics(toks, 1, <<>>)
             IN  IF ~generics.ok
                 THEN generics
                 ELSE IF generics.value.pos > Len(toks) \/ toks[generics.value.pos] # ";"
                      THEN Err("expected semicolon")
                      ELSE LET traits == ParseTraits(toks, generics.value.pos + 1, <<>>)
                           IN  IF ~traits.ok
                               THEN traits
                               ELSE Ok([generics |-> Some(generics.value.generics),
                                        traits |-> traits.value])

\* impl Parse for DeriveWhere, on the whole attribute.
DeriveWhereParse(toks) ==
    LET only_traits == ParseTraits(toks, 1, <<>>)
    IN  IF only_traits.ok
        THEN Ok([generics |-> None, traits |-> only_traits.value])
        ELSE LET generics == ParseGenerics(toks, 1, <<>>)
             IN  IF ~generics.ok
                 THEN generics
                 ELSE IF generics.value.pos > Len(toks) \/ toks[generics.value.pos] # ";"
                      THEN Err("expected semicolon")
                      ELSE LET traits == ParseTraits(toks, generics.value.pos + 1, <<>>)
                           IN  IF ~traits.ok
                               THEN traits
                               ELSE Ok([generics |-> Some(generics.value.generics),
                                        traits |-> traits.value])

(***************************************************************************)
(* derive_where_internal: the where clause of one implementation (the body *)
(* of the loop from `where_clause.cloned()` to the end of the inner loop). *)
(* where_clause is the item's own clause, Option<seq of predicates>; a     *)
(* predicate is a bounded type and its bounds.                             *)
(***************************************************************************)
Predicate(bounded_ty, bounds) == [bounded_ty |-> bounded_ty, bounds |-> bounds]

\* The predicate pushed for one generic; trait_ is the path of the trait.
GenericPredicate(generic, trait_) ==
    IF generic.kind = "CoustomBound"
    THEN Predicate(generic.bounded_ty, generic.bounds)
    ELSE Predicate(generic.ty, <<trait_>>)

\* A plausible slip: a fresh clause instead of the item's own.
impl_where_clause_fresh(where_clause, generics, trait_) ==
    IF generics.some
    THEN Some([i \in DOMAIN generics.value |-> GenericPredicate(generics.value[i], trait_)])
    ELSE where_clause

impl_where_clause(where_clause, generics, trait_) ==
    IF generics.some
    THEN Some((IF where_clause.some THEN where_clause.value ELSE <<>>)
              \o [i \in DOMAIN generics.value |->
                     GenericPredicate(generics.value[i], trait_)])
    ELSE where_clause

\* A plausible slip: an impl with nothing in it is left out.
extend_non_empty(out, tokens) ==
    IF tokens.body.empty THEN out ELSE Append(out, tokens)

\* output.extend(quote! { impl .. })
extend(out, tokens) == Append(out, tokens)

\* quote! { #item }
ItemTokens(it) == [kind |-> "item", item |-> it]

\* impl #impl_generics #trait_ for #ident #type_generics #where_clause { #body }
ImplTokens(trait_, ident, where_clause, body) ==
    [kind |-> "impl", trait_ |-> trait_, ident |-> ident,
     where_clause |-> where_clause, body |-> body]

(***************************************************************************)
(* The inputs.                                                             *)
(***************************************************************************)
\* The item's own where clause: none, or 1 to MaxWhere predicates.
WhereSet ==
    {None} \cup {Some(w) : w \in SeqsOf({Predicate("U", <<"Default">>)}, 1, MaxWhere)}

\* An item syn parses as a DeriveInput, or one it does not (a fn, say).
ItemSet ==
    [derive_input : {TRUE}, ident : {ItemIdent}, where_clause : WhereSet, data : DataSet]
        \cup {[derive_input |-> FALSE]}

\* Attributes: a list of trait idents (one of them outside enum Trait),
\* alone or after a list of generics and a `;`.
RECURSIVE Separated(_, _)
Separated(lists, sep) ==
    IF lists = <<>>
    THEN <<>>
    ELSE IF Len(lists) = 1
         THEN lists[1]
         ELSE lists[1] \o <<sep>> \o Separated(Tail(lists), sep)

GenericTokens == {<<"T">>, <<"T", ":", "Clone">>}

AttrSet ==
    LET traits == {Separated(ts, ",") :
                      ts \in SeqsOf({<<t>> : t \in Trait \cup {"Default"}}, 0, MaxTraits)}
        generics == {Separated(gs, ",") : gs \in SeqsOf(GenericTokens, 1, MaxGenerics)}
    IN  traits \cup {g \o <<";">> \o ts : g \in generics, ts \in traits}

(***************************************************************************)
(* State.                                                                  *)
(***************************************************************************)
VARIABLES
    attr,           \* the attribute's tokens
    item,           \* the item the attribute is on
    pc,             \* where derive_where is
    derive_where,   \* the parsed DeriveWhere
    output,         \* the output token stream: the item, then the impls
    rest,           \* the traits the loop has not reached yet
    result,         \* what derive_where_internal returned
    expansion,      \* what derive_where returned
    test_1,         \* the values a test calls the generated methods on
    test_2,
    step,           \* where the test is
    results,        \* what the calls gave
    enum_attrs,     \* the attributes of the enum Discriminant::parse is given
    enum_variants,  \* and its variants
    discriminant    \* what Discriminant::parse returned

vars == <<attr, item, pc, derive_where, output, rest, result, expansion,
          test_1, test_2, step, results, enum_attrs, enum_variants, discriminant>>

macro_vars == <<attr, item, pc, derive_where, output, rest, result, expansion>>
test_vars == <<test_1, test_2, step, results>>
repr_vars == <<enum_attrs, enum_variants, discriminant>>

Pending == [outcome |-> "pending"]
NoResults ==
    [clone |-> Pending, hash_1 |-> Pending, hash_2 |-> Pending, eq |-> Pending,
     partial_cmp |-> Pending, cmp |-> Pending]
NoValue == [variant |-> 0, fields |-> <<>>]

(***************************************************************************)
(* derive_where and derive_where_internal, one action per step.            *)
(***************************************************************************)
Init ==
    /\ attr \in AttrSet
    /\ item \in ItemSet
    /\ pc = "parse_attr"
    /\ derive_where = [generics |-> None, traits |-> <<>>]
    /\ output = <<>>
    /\ rest = <<>>
    /\ result = None
    /\ expansion = <<>>
    /\ test_1 = NoValue
    /\ test_2 = NoValue
    /\ step = "none"
    /\ results = NoResults
    /\ enum_attrs = <<>>
    /\ enum_variants = <<>>
    /\ discriminant = None

\* let derive_where: DeriveWhere = syn::parse2(attr)?;
ParseAttr ==
    /\ pc = "parse_attr"
    /\ LET parsed == DeriveWhereParse(attr)
       IN  IF parsed.ok
           THEN /\ derive_where' = parsed.value
                /\ pc' = "parse_item"
                /\ result' = result
           ELSE /\ result' = Err(parsed.error)
                /\ pc' = "returned"
                /\ derive_where' = derive_where
    /\ UNCHANGED <<attr, item, output, rest, expansion, test_vars, repr_vars>>

\* let mut output = quote! { #item }; let DeriveInput { .. } = syn::parse2(item)?;
ParseItem ==
    /\ pc = "parse_item"
    /\ output' = <<ItemTokens(item)>>
    /\ IF item.derive_input
       THEN /\ rest' = derive_where.traits
            /\ pc' = "loop"
            /\ result' = result
       ELSE /\ result' = Err("expected one of: struct, enum, union")
            /\ pc' = "returned"
            /\ rest' = rest
    /\ UNCHANGED <<attr, item, derive_where, expansion, test_vars, repr_vars>>

\* One iteration of `for trait_ in derive_where.traits`.
ImplTrait ==
    /\ pc = "loop"
    /\ rest # <<>>
    /\ LET trait_ == Head(rest)
           body == generate_body(trait_, item.ident, item.data)
       IN  IF body.ok
           THEN /\ output' = extend(output,
                                    ImplTokens(path(trait_), item.ident,
                                               impl_where_clause(item.where_clause,
                                                                 derive_where.generics,
                                                                 path(trait_)),
                                               body.value))
                /\ rest' = Tail(rest)
                /\ UNCHANGED <<pc, result>>
           ELSE /\ result' = Err(body.error)
                /\ pc' = "returned"
                /\ UNCHANGED <<output, rest>>
    /\ UNCHANGED <<attr, item, derive_where, expansion, test_vars, repr_vars>>

\* Ok(output)
Finish ==
    /\ pc = "loop"
    /\ rest = <<>>
    /\ result' = Ok(output)
    /\ pc' = "returned"
    /\ UNCHANGED <<attr, item, derive_where, output, rest, expansion, test_vars, repr_vars>>

\* A variant of derive_where that hands back what was generated before the
\* error, followed by the error.
Expand_partial ==
    /\ pc = "returned"
    /\ expansion' = IF result.ok
                    THEN result.value
                    ELSE output \o <<[kind |-> "compile_error", message |-> result.error]>>
    /\ pc' = "expanded"
    /\ UNCHANGED <<attr, item, derive_where, output, rest, result, test_vars, repr_vars>>

\* derive_where: the output, or the error as a compile error.
Expand ==
    /\ pc = "returned"
    /\ expansion' = IF result.ok
                    THEN result.value
                    ELSE <<[kind |-> "compile_error", message |-> result.error]>>
    /\ pc' = "expanded"
    /\ UNCHANGED <<attr, item, derive_where, output, rest, result, test_vars, repr_vars>>

Next == ParseAttr \/ ParseItem \/ ImplTrait \/ Finish \/ Expand

Spec == Init /\ [][Next]_vars

(***************************************************************************)
(* The parser alone (syn::parse2::<DeriveWhere>(attr)), on every attribute *)
(* of up to MaxTokens tokens.  A `+` stands only where a bound list has    *)
(* it: after a bound.                                                      *)
(***************************************************************************)
TokenSet == {"Clone", "Copy", "Default", "T", ",", ";", ":", "+"}

ParseInputs ==
    {toks \in SeqsOf(TokenSet, 0, MaxTokens) :
        \A i \in DOMAIN toks :
            toks[i] = "+" =>
                /\ i >= 3
                /\ IsIdent(toks[i - 1])
                /\ toks[i - 2] \in {":", "+"}}

InitParse ==
    /\ attr \in ParseInputs
    /\ item = [derive_input |-> FALSE]
    /\ pc = "parse_attr"
    /\ derive_where = [generics |-> None, traits |-> <<>>]
    /\ output = <<>>
    /\ rest = <<>>
    /\ result = None
    /\ expansion = <<>>
    /\ test_1 = NoValue
    /\ test_2 = NoValue
    /\ step = "none"
    /\ results = NoResults
    /\ enum_attrs = <<>>
    /\ enum_variants = <<>>
    /\ discriminant = None

NextParse == ParseAttr

SpecParse == InitParse /\ [][NextParse]_vars

(***************************************************************************)
(* A test of the generated methods (tests/tests.rs): two values of the     *)
(* item, and the generated clone, hash, eq, partial_cmp and cmp called on  *)
(* them in turn.                                                           *)
(***************************************************************************)
\* The method generated for a trait on the item under test.
Impl(trait_) == generate_body(trait_, item.ident, item.data).value

\* The items a value can be made of.
TestItems ==
    {it \in ItemSet :
        /\ it.derive_input
        /\ it.where_clause = None
        /\ generate_body("Clone", it.ident, it.data).ok
        /\ ValuesOf(it.data) # {}}

InitTest ==
    /\ attr = <<>>
    /\ item \in TestItems
    /\ pc = "idle"
    /\ derive_where = [generics |-> None, traits |-> <<>>]
    /\ output = <<>>
    /\ rest = <<>>
    /\ result = None
    /\ expansion = <<>>
    /\ test_1 \in ValuesOf(item.data)
    /\ test_2 \in ValuesOf(item.data)
    /\ step = "clone"
    /\ results = NoResults
    /\ enum_attrs = <<>>
    /\ enum_variants = <<>>
    /\ discriminant = None

\* let test_clone = test_1.clone();
TestClone ==
    /\ step = "clone"
    /\ results' = [results EXCEPT
                      !.clone = Invoke(Impl("Clone"), item.data, test_1, test_1)]
    /\ step' = "hash"
    /\ UNCHANGED <<macro_vars, repr_vars, test_1, test_2>>

\* test_1.hash(&mut hasher); test_2.hash(&mut hasher), each on a new hasher.
TestHash ==
    /\ step = "hash"
    /\ results' = [results EXCEPT
                      !.hash_1 = Invoke(Impl("Hash"), item.data, test_1, test_1),
                      !.hash_2 = Invoke(Impl("Hash"), item.data, test_2, test_2)]
    /\ step' = "eq"
    /\ UNCHANGED <<macro_vars, repr_vars, test_1, test_2>>

\* test_1 == test_2
TestEq ==
    /\ step = "eq"
    /\ results' = [results EXCEPT
                      !.eq = Invoke(Impl("PartialEq"), item.data, test_1, test_2)]
    /\ step' = "partial_cmp"
    /\ UNCHANGED <<macro_vars, repr_vars, test_1, test_2>>

\* test_1 > test_2, test_1 < test_2
TestPartialCmp ==
    /\ step = "partial_cmp"
    /\ results' = [results EXCEPT
                      !.partial_cmp = Invoke(Impl("PartialOrd"), item.data, test_1, test_2)]
    /\ step' = "cmp"
    /\ UNCHANGED <<macro_vars, repr_vars, test_1, test_2>>

\* test_1.cmp(&test_2)
TestCmp ==
    /\ step = "cmp"
    /\ results' = [results EXCEPT
                      !.cmp = Invoke(Impl("Ord"), item.data, test_1, test_2)]
    /\ step' = "done"
    /\ UNCHANGED <<macro_vars, repr_vars, test_1, test_2>>

NextTest == TestClone \/ TestHash \/ TestEq \/ TestPartialCmp \/ TestCmp

SpecTest == InitTest /\ [][NextTest]_vars

(***************************************************************************)
(* item.rs: Discriminant::parse(attrs, variants).  An attribute is its     *)
(* path and its meta: Meta::List with the arguments between the commas, or *)
(* Meta::Path or Meta::NameValue.  An argument is an ident, or something   *)
(* that is not one (the nested `align(2)`).  A variant is its Fields.      *)
(***************************************************************************)
\* Representation::parse
RepresentationParse(ident) ==
    CASE ident = "u8" -> Some("U8")
      [] ident = "u16" -> Some("U16")
      [] ident = "u32" -> Some("U32")
      [] ident = "u64" -> Some("U64")
      [] ident = "u128" -> Some("U128")
      [] ident = "usize" -> Some("USize")
      [] ident = "i8" -> Some("I8")
      [] ident = "i16" -> Some("I16")
      [] ident = "i32" -> Some("I32")
      [] ident = "i64" -> Some("I64")
      [] ident = "i128" -> Some("I128")
      [] ident = "isize" -> Some("ISize")
      [] OTHER -> None

NestedMeta == "align(2)"

\* list.parse_args_with(Punctuated::<Ident, Token![,]>::parse_terminated)
ParseArgs(list) ==
    IF \E i \in DOMAIN list : list[i] = NestedMeta
    THEN Err("expected comma")
    ELSE Ok(list)

\* `for ident in list`, from argument k on: is_c and has_repr after it.
RECURSIVE ScanList(_, _, _, _)
ScanList(list, k, has_repr, is_c) ==
    IF k > Len(list)
    THEN [has_repr |-> has_repr, is_c |-> is_c]
    ELSE IF list[k] = "C"
         THEN ScanList(list, k + 1, has_repr, TRUE)
         ELSE IF RepresentationParse(list[k]).some
              THEN [has_repr |-> Some(RepresentationParse(list[k]).value), is_c |-> is_c]
              ELSE ScanList(list, k + 1, has_repr, is_c)

\* A variant of the loop over attrs that passes over a repr that is not a
\* list.
RECURSIVE ScanAttrs_lenient(_, _, _, _)
ScanAttrs_lenient(attrs, k, has_repr, is_c) ==
    IF k > Len(attrs)
    THEN Ok([has_repr |-> has_repr, is_c |-> is_c])
    ELSE IF attrs[k].path = "repr" /\ attrs[k].meta = "List"
         THEN LET list == ParseArgs(attrs[k].list)
              IN  IF ~list.ok
                  THEN list
                  ELSE LET scan == ScanList(list.value, 1, has_repr, is_c)
                       IN  ScanAttrs_lenient(attrs, k + 1, scan.has_repr, scan.is_c)
         ELSE ScanAttrs_lenient(attrs, k + 1, has_repr, is_c)

\* `for attr in attrs`, from attribute k on.
RECURSIVE ScanAttrs(_, _, _, _)
ScanAttrs(attrs, k, has_repr, is_c) ==
    IF k > Len(attrs)
    THEN Ok([has_repr |-> has_repr, is_c |-> is_c])
    ELSE IF attrs[k].path = "repr"
         THEN IF attrs[k].meta = "List"
              THEN LET list == ParseArgs(attrs[k].list)
                   IN  IF ~list.ok
                       THEN list
                       ELSE LET scan == ScanList(list.value, 1, has_repr, is_c)
                            IN  ScanAttrs(attrs, k + 1, scan.has_repr, scan.is_c)
              ELSE Err("Error::repr")
         ELSE ScanAttrs(attrs, k + 1, has_repr, is_c)

\* enum Discriminant
Single == [kind |-> "Single"]
UnitDefault == [kind |-> "UnitDefault"]
Unknown == [kind |-> "Unknown"]
UnitRepr(repr) == [kind |-> "UnitRepr", repr |-> repr]
Repr(repr) == [kind |-> "Repr", repr |-> repr]

\* A variant of Discriminant::parse that takes only Fields::Unit for a unit.
DiscriminantParse_unit_style(attrs, variants_) ==
    IF Len(variants_) = 1
    THEN Ok(Single)
    ELSE LET scan == ScanAttrs(attrs, 1, None, FALSE)
         IN  IF ~scan.ok
             THEN scan
             ELSE LET is_unit == \A i \in DOMAIN variants_ : variants_[i].style = "Unit"
                  IN  Ok(IF scan.value.has_repr.some
                         THEN IF is_unit
                              THEN UnitRepr(scan.value.has_repr.value)
                              ELSE Repr(scan.value.has_repr.value)
                         ELSE IF is_unit /\ ~scan.value.is_c
                              THEN UnitDefault
                              ELSE Unknown)

\* Discriminant::parse
DiscriminantParse(attrs, variants_) ==
    IF Len(variants_) = 1
    THEN Ok(Single)
    ELSE LET scan == ScanAttrs(attrs, 1, None, FALSE)
         IN  IF ~scan.ok
             THEN scan
             ELSE LET is_unit == \A i \in DOMAIN variants_ : variants_[i].len = 0
                  IN  Ok(IF scan.value.has_repr.some
                         THEN IF is_unit
                              THEN UnitRepr(scan.value.has_repr.value)
                              ELSE Repr(scan.value.has_repr.value)
                         ELSE IF is_unit /\ ~scan.value.is_c
                              THEN UnitDefault
                              ELSE Unknown)

\* The attributes an enum can carry: #[repr(..)] with up to MaxList
\* arguments, #[repr] and #[repr = ".."], and attributes other than repr.
ReprArgs == {"C", "u8", "i16", "packed", NestedMeta}

AttributeSet ==
    {[path |-> "repr", meta |-> "List", list |-> l] : l \in SeqsOf(ReprArgs, 0, MaxList)}
        \cup {[path |-> "repr", meta |-> "Path"], [path |-> "repr", meta |-> "NameValue"]}
        \cup {[path |-> "derive", meta |-> "List", list |-> <<"u8">>],
              [path |-> "non_exhaustive", meta |-> "Path"]}

EnumVariantSet ==
    {[style |-> "Unit", len |-> 0], [style |-> "Named", len |-> 0],
     [style |-> "Unnamed", len |-> 1]}

InitRepr ==
    /\ enum_attrs \in SeqsOf(AttributeSet, 0, MaxAttrs)
    /\ enum_variants \in SeqsOf(EnumVariantSet, 0, MaxEnumVariants)
    /\ discriminant = None
    /\ pc = "discriminant"
    /\ attr = <<>>
    /\ item = [derive_input |-> FALSE]
    /\ derive_where = [generics |-> None, traits |-> <<>>]
    /\ output = <<>>
    /\ rest = <<>>
    /\ result = None
    /\ expansion = <<>>
    /\ test_1 = NoValue
    /\ test_2 = NoValue
    /\ step = "none"
    /\ results = NoResults

\* let discriminant = Discriminant::parse(attrs, variants);
Resolve ==
    /\ pc = "discriminant"
    /\ discriminant' = Some(DiscriminantParse(enum_attrs, enum_variants))
    /\ pc' = "resolved"
    /\ UNCHANGED <<attr, item, derive_where, output, rest, result, expansion,
                   test_vars, enum_attrs, enum_variants>>

NextRepr == Resolve

SpecRepr == InitRepr /\ [][NextRepr]_vars

(***************************************************************************)
(* What the claims speak of.                                               *)
(***************************************************************************)
IsEnum == item.data.kind = "Enum"
IsStruct == item.data.kind = "Struct"
Called(r) == r.outcome # "pending"
Returned(r) == r.outcome = "returned"

\* The ordering of two field lists, first field first.
RECURSIVE Lexicographic(_, _, _)
Lexicographic(f, g, k) ==
    IF k > Len(f)
    THEN "Equal"
    ELSE IF f[k] # g[k] THEN FieldCmp(f[k], g[k]) ELSE Lexicographic(f, g, k + 1)

\* How many fields are compared: up to and including the first unequal one.
RECURSIVE Compared(_, _, _)
Compared(f, g, k) ==
    IF k > Len(f) THEN Len(f) ELSE IF f[k] # g[k] THEN k ELSE Compared(f, g, k + 1)

\* The field pairs a call compared, in evaluation order.
ComparedPairs(r) == [i \in DOMAIN r.evals |-> r.evals[i].values]
FieldPairs(x, y, n) == [i \in 1 .. n |-> <<x.fields[i], y.fields[i]>>]

\* What a hash call fed the hasher, in order.
HashInput(r) == [i \in DOMAIN r.evals |-> r.evals[i].values[1]]
DiscriminantArg == "&::core::mem::discriminant(self)"
FedDiscriminant(r, i) == r.evals[i].args[1] = DiscriminantArg

\* C1: for an enum, comparing a value of variant i with one of variant j,
\* i # j, with the generated cmp (Ord) and partial_cmp (PartialOrd) gives
\* Less when i < j and Greater when i > j, whatever the fields, and no field
\* is compared.
C1_CrossVariantByIndex ==
    (IsEnum /\ test_1.variant # test_2.variant) =>
        LET o == IF test_1.variant < test_2.variant THEN "Less" ELSE "Greater"
        IN  /\ Called(results.partial_cmp) =>
                  /\ Returned(results.partial_cmp)
                  /\ results.partial_cmp.value = OrderingTokens(TRUE, o)
                  /\ results.partial_cmp.evals = <<>>
            /\ Called(results.cmp) =>
                  /\ Returned(results.cmp)
                  /\ results.cmp.value = OrderingTokens(FALSE, o)
                  /\ results.cmp.evals = <<>>

\* C2: for two values of the same struct or variant, the generated cmp and
\* partial_cmp give the comparison of the first field, in declaration
\* order, that is not Equal, and Equal when there is none; the fields after
\* that one are not compared.
C2_FirstUnequalFieldDecides ==
    (test_1.variant = test_2.variant) =>
        LET o == Lexicographic(test_1.fields, test_2.fields, 1)
            n == Compared(test_1.fields, test_2.fields, 1)
        IN  /\ Called(results.partial_cmp) =>
                  /\ Returned(results.partial_cmp)
                  /\ results.partial_cmp.value = OrderingTokens(TRUE, o)
                  /\ ComparedPairs(results.partial_cmp) = FieldPairs(test_1, test_2, n)
            /\ Called(results.cmp) =>
                  /\ Returned(results.cmp)
                  /\ results.cmp.value = OrderingTokens(FALSE, o)
                  /\ ComparedPairs(results.cmp) = FieldPairs(test_1, test_2, n)

\* C3: the generated eq gives true exactly when both values are the same
\* variant and every pair of fields is equal, and gives false for different
\* variants without comparing a field.
C3_EqIsStructural ==
    Called(results.eq) =>
        /\ Returned(results.eq)
        /\ results.eq.value = [kind |-> "bool", value |-> test_1 = test_2]
        /\ test_1.variant # test_2.variant => results.eq.evals = <<>>

\* C4: for every pair of values, the generated cmp gives Equal if and only
\* if the generated eq gives true.
C4_OrdAgreesWithEq ==
    (Called(results.eq) /\ Called(results.cmp)) =>
        /\ Returned(results.eq)
        /\ Returned(results.cmp)
        /\ results.cmp.value = OrderingTokens(FALSE, "Equal")
              <=> results.eq.value = [kind |-> "bool", value |-> TRUE]

\* C5: for every pair of values the generated eq reports equal, the
\* generated hash feeds the hasher the same inputs in the same order.
C5_HashAgreesWithEq ==
    (Called(results.eq) /\ Called(results.hash_1)) =>
        /\ Returned(results.eq)
        /\ results.eq.value = [kind |-> "bool", value |-> TRUE] =>
              /\ Returned(results.hash_1)
              /\ Returned(results.hash_2)
              /\ results.hash_1.evals = results.hash_2.evals

\* C6: for an enum, the generated hash feeds the hasher the discriminant
\* first and then every field of the variant once, in declaration order;
\* two values of different variants never feed it the same inputs.
C6_EnumHashDiscriminantFirst ==
    (IsEnum /\ Called(results.hash_1)) =>
        /\ \A t \in {<<test_1, results.hash_1>>, <<test_2, results.hash_2>>} :
              /\ Returned(t[2])
              /\ HashInput(t[2]) = <<t[1].variant>> \o t[1].fields
              /\ \A i \in DOMAIN t[2].evals : FedDiscriminant(t[2], i) <=> i = 1
        /\ test_1.variant # test_2.variant =>
              HashInput(results.hash_1) # HashInput(results.hash_2)

\* C6 happens: two values of different variants of an enum, the first with
\* two different fields, have been hashed.
C6_Witness ==
    /\ IsEnum
    /\ Returned(results.hash_1)
    /\ Returned(results.hash_2)
    /\ test_1.variant # test_2.variant
    /\ Len(test_1.fields) = 2
    /\ test_1.fields[1] # test_1.fields[2]

\* C7: for a struct, the generated hash feeds the hasher the fields in
\* declaration order and nothing else: no discriminant.
C7_StructHashFieldsOnly ==
    (IsStruct /\ Called(results.hash_1)) =>
        /\ Returned(results.hash_1)
        /\ HashInput(results.hash_1) = test_1.fields
        /\ \A i \in DOMAIN results.hash_1.evals : ~FedDiscriminant(results.hash_1, i)

\* C8: the generated clone gives the same variant with every field the
\* clone of the field at its position, so the generated eq reports the
\* clone equal to the value it was made from.
C8_CloneEqualsOriginal ==
    Called(results.clone) =>
        /\ Returned(results.clone)
        /\ results.clone.value =
              [kind |-> "value", variant |-> test_1.variant, fields |-> test_1.fields]
        /\ LET clone == [variant |-> results.clone.value.variant,
                         fields |-> results.clone.value.fields]
               eq == Invoke(Impl("PartialEq"), item.data, clone, test_1)
           IN  /\ Returned(eq)
               /\ eq.value = [kind |-> "bool", value |-> TRUE]

\* C9: the where clause of the impl of each requested trait c is the item's
\* own clause unchanged when the attribute has no generics; otherwise the
\* item's predicates followed by one predicate per generic, in the order of
\* the attribute: a generic with bounds as written, a bare type T as
\* `T: c` for this c and no other trait.
C9_WhereClausePerImpl ==
    \A i \in 2 .. Len(output) :
        LET c == derive_where.traits[i - 1]
            clause == output[i].where_clause
            own == IF item.where_clause.some THEN item.where_clause.value ELSE <<>>
            generics == derive_where.generics
        IN  IF ~generics.some
            THEN clause = item.where_clause
            ELSE /\ clause.some
                 /\ Len(clause.value) = Len(own) + Len(generics.value)
                 /\ \A k \in DOMAIN own : clause.value[k] = own[k]
                 /\ \A k \in DOMAIN generics.value :
                        LET g == generics.value[k]
                            p == clause.value[Len(own) + k]
                        IN  IF g.kind = "CoustomBound"
                            THEN p = Predicate(g.bounded_ty, g.bounds)
                            ELSE p = Predicate(g.ty, <<path(c)>>)

\* C9 happens: two different traits were implemented for an item with a
\* where clause of its own, from an attribute with a bare generic and a
\* generic with bounds.
C9_Witness ==
    /\ pc = "returned"
    /\ result.ok
    /\ Len(output) = 3
    /\ output[2].trait_ # output[3].trait_
    /\ item.where_clause.some
    /\ derive_where.generics.some
    /\ {derive_where.generics.value[k].kind : k \in DOMAIN derive_where.generics.value}
          = {"CoustomBound", "NoBound"}

\* C10: on success the output is the item, unchanged, followed by one impl
\* per trait of the parsed attribute, in the attribute's order, the impls of
\* Copy and Eq with nothing in them.
C10_ItemThenOneImplPerTrait ==
    (pc \in {"returned", "expanded"} /\ result.ok) =>
        /\ Len(result.value) = 1 + Len(derive_where.traits)
        /\ result.value[1] = ItemTokens(item)
        /\ \A i \in DOMAIN derive_where.traits :
              /\ result.value[i + 1].kind = "impl"
              /\ result.value[i + 1].trait_ = path(derive_where.traits[i])
              /\ derive_where.traits[i] \in {"Copy", "Eq"} =>
                    result.value[i + 1].body = EmptyTokens
        /\ pc = "expanded" => expansion = result.value

\* C10 happens: derive_where returned the impls of a marker trait and of
\* a trait with a method.
C10_Witness ==
    /\ pc = "expanded"
    /\ result.ok
    /\ Len(derive_where.traits) = 2
    /\ derive_where.traits[1] \in {"Copy", "Eq"}
    /\ derive_where.traits[2] \notin {"Copy", "Eq"}
    /\ Len(expansion) = 3

\* The tokens of an attribute.
TokensOf(toks) == {toks[i] : i \in DOMAIN toks}

\* A comma-separated list of trait names and nothing else (a comma after
\* the last name is allowed, as in every comma-separated list of Rust).
IsCapabilityList(toks) ==
    \A i \in DOMAIN toks : IF i % 2 = 1 THEN toks[i] \in Trait ELSE toks[i] = ","

\* The names of such a list, in order.
CapabilitiesOf(toks) == [i \in 1 .. (Len(toks) + 1) \div 2 |-> toks[2 * i - 1]]

\* What follows the first `;` of an attribute that has one.
AfterSemicolon(toks) ==
    LET k == CHOOSE k \in DOMAIN toks :
                 toks[k] = ";" /\ \A j \in 1 .. k - 1 : toks[j] # ";"
    IN  SubSeq(toks, k + 1, Len(toks))

UnsupportedAt(toks, start) ==
    LET bad(p) ==
            /\ (p - start) % 2 = 0
            /\ IsIdent(toks[p])
            /\ toks[p] \notin Trait
            /\ \A q \in start .. p - 1 :
                   IF (q - start) % 2 = 0 THEN toks[q] \in Trait ELSE toks[q] = ","
    IN  IF \E p \in start .. Len(toks) : bad(p)
        THEN CHOOSE p \in start .. Len(toks) : bad(p)
        ELSE 0

\* Where the trait list starts: at the first token of an attribute without
\* `;` and `:`, after the `;` that ends the generics otherwise; 0 when the
\* attribute has neither form.
TraitListStart(toks) ==
    IF ";" \notin TokensOf(toks) /\ ":" \notin TokensOf(toks)
    THEN 1
    ELSE LET generics == ParseGenerics(toks, 1, <<>>)
         IN  IF /\ generics.ok
                /\ generics.value.pos <= Len(toks)
                /\ toks[generics.value.pos] = ";"
             THEN generics.value.pos + 1
             ELSE 0

\* C12: when an ident outside the eight trait names stands where a trait
\* name is expected, parsing fails with the error that names it
\* ("<ident> isn't supported"), in an attribute that is a trait list alone
\* as well as in one with generics before a `;`.
C12_UnsupportedTraitIsNamed ==
    (pc # "parse_attr" /\ TraitListStart(attr) # 0
        /\ UnsupportedAt(attr, TraitListStart(attr)) # 0) =>
        /\ pc = "returned"
        /\ result = Err(attr[UnsupportedAt(attr, TraitListStart(attr))] \o " isn't supported")

\* The first trait of the request whose body cannot be generated for the
\* item: its position, 0 when there is none.
FirstFailing(traits, it) ==
    LET fails(i) == ~generate_body(traits[i], it.ident, it.data).ok
    IN  IF \E i \in DOMAIN traits : fails(i)
        THEN CHOOSE i \in DOMAIN traits : fails(i) /\ \A j \in 1 .. i - 1 : ~fails(j)
        ELSE 0

\* C13: when parsing the attribute, parsing the item or generating a body
\* fails, derive_where_internal returns the first error and goes no
\* further: the traits from the failing one on are never processed, and
\* what derive_where hands back is the error alone, with no impl block.
C13_StopsAtFirstError ==
    (pc \in {"returned", "expanded"} /\ ~result.ok) =>
        /\ IF ~DeriveWhereParse(attr).ok
           THEN /\ result.error = DeriveWhereParse(attr).error
                /\ output = <<>>
           ELSE IF ~item.derive_input
                THEN /\ result.error = "expected one of: struct, enum, union"
                     /\ rest = <<>>
                ELSE LET i == FirstFailing(derive_where.traits, item)
                     IN  /\ i # 0
                         /\ result.error =
                               generate_body(derive_where.traits[i], item.ident, item.data).error
                         /\ rest = SubSeq(derive_where.traits, i, Len(derive_where.traits))
        /\ pc = "expanded" =>
               expansion = <<[kind |-> "compile_error", message |-> result.error]>>

\* C13 happens: of two requested traits the body of the first could not
\* be generated, and derive_where returned.
C13_Witness ==
    /\ pc = "expanded"
    /\ ~result.ok
    /\ DeriveWhereParse(attr).ok
    /\ item.derive_input
    /\ Len(derive_where.traits) = 2
    /\ rest = derive_where.traits
    /\ output # <<>>

\* The items generate_body has no arms for.
IsUnitStruct == item.derive_input /\ item.data.kind = "Struct" /\ item.data.fields.style = "Unit"
IsUnion == item.derive_input /\ item.data.kind = "Union"

\* C14: for a unit struct or a union, every expansion whose attribute
\* parses returns the error of the unsupported item, whatever the traits
\* requested (Copy and Eq included), and no impl has been generated when
\* it does.
C14_UnitStructAndUnionRejected ==
    (pc \in {"returned", "expanded"} /\ DeriveWhereParse(attr).ok
        /\ (IsUnitStruct \/ IsUnion)) =>
        /\ ~result.ok
        /\ result.error = generate_body("Copy", item.ident, item.data).error
        /\ output = <<ItemTokens(item)>>

\* The expressions whose value a generated ordering arm can give: the
\* Ordering written out for no fields and for another variant, and the
\* result of a field comparison passed through by `__cmp => __cmp`.
RECURSIVE ResultsOf(_)
ResultsOf(e) ==
    CASE e.kind = "match_cmp" -> {e.scrutinee} \cup ResultsOf(e.body)
      [] e.kind = "match" -> UNION {ResultsOf(e.arms[i].value) : i \in DOMAIN e.arms}
      [] OTHER -> {e}

MethodResults(sig) == UNION {ResultsOf(sig.arms[i].value) : i \in DOMAIN sig.arms}

\* C15: every result of the generated partial_cmp (the Equal of no fields,
\* the Less or Greater of another variant, a field comparison passed
\* through) is an Ordering inside Option::Some, and every result of the
\* generated cmp is a bare Ordering.
C15_PartialOrdWrapsOrdBare ==
    /\ Called(results.partial_cmp) =>
           \A r \in MethodResults(Impl("PartialOrd")) :
               TypeOf(r, item.data) = "::core::option::Option<::core::cmp::Ordering>"
    /\ Called(results.cmp) =>
           \A r \in MethodResults(Impl("Ord")) :
               TypeOf(r, item.data) = "::core::cmp::Ordering"

\* The repr attributes of the enum, in declaration order.
IsRepr(a) == a.path = "repr"
IsReprList(a) == a.path = "repr" /\ a.meta = "List"
WellFormed(attrs) ==
    \A i \in DOMAIN attrs :
        IsRepr(attrs[i]) => IsReprList(attrs[i]) /\ NestedMeta \notin TokensOf(attrs[i].list)

IntegerWidths ==
    {"u8", "u16", "u32", "u64", "u128", "usize", "i8", "i16", "i32", "i64", "i128", "isize"}

\* The integer widths the repr lists name, in declaration order.
RECURSIVE WidthsOf(_)
WidthsOf(attrs) ==
    IF attrs = <<>>
    THEN <<>>
    ELSE (IF IsReprList(Head(attrs))
          THEN SelectSeq(Head(attrs).list, LAMBDA x : x \in IntegerWidths)
          ELSE <<>>)
         \o WidthsOf(Tail(attrs))

Resolved == pc = "resolved" /\ discriminant.some

\* C16: for an enum of more than one variant whose repr attributes name
\* several integer widths, in one attribute or in several, the width of
\* the UnitRepr or Repr returned is the first one in declaration order.
C16_FirstWidthWins ==
    (Resolved /\ Len(enum_variants) > 1 /\ WellFormed(enum_attrs)
        /\ WidthsOf(enum_attrs) # <<>>) =>
        /\ discriminant.value.ok
        /\ discriminant.value.value.kind \in {"UnitRepr", "Repr"}
        /\ Some(discriminant.value.value.repr) = RepresentationParse(WidthsOf(enum_attrs)[1])

\* The first repr attribute that is not a list: its position, 0 when every
\* repr attribute is one.
FirstNotList(attrs) ==
    LET bad(i) == IsRepr(attrs[i]) /\ ~IsReprList(attrs[i])
    IN  IF \E i \in DOMAIN attrs : bad(i)
        THEN CHOOSE i \in DOMAIN attrs : bad(i) /\ \A j \in 1 .. i - 1 : ~bad(j)
        ELSE 0

\* C17 as stated: Discriminant::parse fails with the error of a malformed
\* repr whenever a repr attribute is present that is not a list, whatever
\* the number of variants and whatever the other attributes.
C17_NonListReprFails ==
    (Resolved /\ FirstNotList(enum_attrs) # 0) =>
        discriminant.value = Err("Error::repr")

\* C17, amended: Discriminant::parse fails with the error of a malformed
\* repr whenever a repr attribute is present that is not a list, the enum
\* does not have exactly one variant, and no repr list before that
\* attribute has an argument that is not an ident; with exactly one variant
\* it returns Single without looking at the attributes, and a repr list
\* with such an argument before it fails with the parse error instead.
C17_NonListReprFailsUnlessSingle ==
    (Resolved /\ FirstNotList(enum_attrs) # 0) =>
        IF Len(enum_variants) = 1
        THEN discriminant.value = Ok(Single)
        ELSE IF WellFormed(SubSeq(enum_attrs, 1, FirstNotList(enum_attrs) - 1))
             THEN discriminant.value = Err("Error::repr")
             ELSE discriminant.value = Err("expected comma")

\* C17 happens: an enum of two variants with a repr list and, after it, a
\* repr that is not a list, was resolved.
C17_Witness ==
    /\ Resolved
    /\ Len(enum_variants) = 2
    /\ Len(enum_attrs) = 2
    /\ IsReprList(enum_attrs[1])
    /\ FirstNotList(enum_attrs) = 2
    /\ discriminant.value = Err("Error::repr")

\* Whether a repr list names the C layout.
HasC(attrs) == \E i \in DOMAIN attrs : IsReprList(attrs[i]) /\ "C" \in TokensOf(attrs[i].list)

\* The rule of the resolver, for a given reading of "unit": the kind of
\* Discriminant for these attributes and variants.
RuleKind(attrs, variants_, is_unit) ==
    IF Len(variants_) = 1
    THEN "Single"
    ELSE IF WidthsOf(attrs) # <<>>
         THEN IF is_unit THEN "UnitRepr" ELSE "Repr"
         ELSE IF is_unit /\ ~HasC(attrs) THEN "UnitDefault" ELSE "Unknown"

\* The result follows the rule: the kind, and for UnitRepr and Repr a width
\* the attributes name.
FollowsRule(is_unit) ==
    /\ discriminant.value.ok
    /\ discriminant.value.value.kind = RuleKind(enum_attrs, enum_variants, is_unit)
    /\ discriminant.value.value.kind \in {"UnitRepr", "Repr"} =>
           \E w \in TokensOf(WidthsOf(enum_attrs)) :
               Some(discriminant.value.value.repr) = RepresentationParse(w)

C19_ArmsFitDispatch ==
    step = "done" =>
        \A c \in Trait :
            LET sig == Impl(c)
            IN  ~sig.empty =>
                    \A i \in DOMAIN sig.arms :
                        sig.arms[i].pat.kind # "wild" =>
                            /\ Len(sig.scrutinee) = 1 => sig.arms[i].pat.kind = "variant"
                            /\ Len(sig.scrutinee) = 2 => sig.arms[i].pat.kind = "pair"
                            /\ c \in {"PartialEq", "Ord", "PartialOrd"} =>
                                   TypeOf(sig.arms[i].value, item.data) = sig.ret

=============================================================================
